---- MODULE Spec2Model ----
(***************************************************************************)
(* aya-log: the TLV encoder of aya-log-common, the format-string parser of *)
(* aya-log-parser and the record driver generated by aya-log-test-macros.  *)
(*                                                                         *)
(* Text is a sequence of characters (one-character strings); a byte is a   *)
(* number in 0..255; a buffer is a sequence of bytes.  Offsets into text   *)
(* and buffers are the 0-based byte offsets of the Rust code.              *)
(***************************************************************************)
EXTENDS Integers, Sequences, FiniteSets, TLC

VARIABLES
    format_string,  \* parser: the template handed to parse()
    parsed,         \* parser: the Result returned by parse(), or the "none" record
    endian,         \* platform byte order used by to_ne_bytes / write_unaligned
    buf,            \* the caller-owned destination buffer
    buf0,           \* the buffer as the caller handed it in
    pc,             \* position of the caller / of the generated driver
    call,           \* the arguments of the encode call that was made
    ret,            \* the Result of the encode call that was made
    fragments,      \* driver: fragments the macro expanded (values and hints)
    frag_i,         \* driver: number of fragments whose block has been entered
    record_len,     \* driver: the running offset
    calls,          \* driver: the encode calls made so far, in order
    fault           \* "none", "panic" (Rust panic) or "ub" (raw write out of bounds)

vars == <<format_string, parsed, endian, buf, buf0, pc, call, ret,
          fragments, frag_i, record_len, calls, fault>>

(***************************************************************************)
(* Bounds of the model                                                     *)
(***************************************************************************)
\* templates are all texts over Alphabet of at most MaxTemplateLen characters
MaxTemplateLen == 4
\* destination buffers of the encode calls have 0..MaxBufLen bytes
MaxBufLen == 172
\* destination buffers of the generated driver have 0..MaxLogBufLen bytes
MaxLogBufLen == 240

(***************************************************************************)
(* Text                                                                    *)
(***************************************************************************)
\* str::as_bytes of one character.  "é" stands for every character that takes
\* more than one byte.
Utf8(c) ==
    CASE c = "é" -> <<195, 169>>
      [] c = "{" -> <<123>>
      [] c = "}" -> <<125>>
      [] c = ":" -> <<58>>
      [] c = " " -> <<32>>
      [] c = "." -> <<46>>
      [] c = "4" -> <<52>>
      [] c = "6" -> <<54>>
      [] c = "I" -> <<73>>
      [] c = "P" -> <<80>>
      [] c = "V" -> <<86>>
      [] c = "X" -> <<88>>
      [] c = "a" -> <<97>>
      [] c = "b" -> <<98>>
      [] c = "e" -> <<101>>
      [] c = "f" -> <<102>>
      [] c = "i" -> <<105>>
      [] c = "m" -> <<109>>
      [] c = "o" -> <<111>>
      [] c = "p" -> <<112>>
      [] c = "r" -> <<114>>
      [] c = "s" -> <<115>>
      [] c = "t" -> <<116>>
      [] c = "v" -> <<118>>
      [] c = "x" -> <<120>>

RECURSIVE AsBytes(_)
AsBytes(s) == IF s = <<>> THEN <<>> ELSE Utf8(Head(s)) \o AsBytes(Tail(s))

\* str::len: the length in bytes
StrLen(s) == Len(AsBytes(s))

\* byte offset of the i-th character (1-based i; i = Len(s) + 1 is the end)
BytePos(s, i) == StrLen(SubSeq(s, 1, i - 1))

\* &s[a..b] for byte offsets on character boundaries
StrSlice(s, a, b) ==
    LET from == CHOOSE i \in 1..(Len(s) + 1) : BytePos(s, i) = a
        to   == CHOOSE i \in 1..(Len(s) + 1) : BytePos(s, i) = b
    IN SubSeq(s, from, to - 1)

\* s.starts_with(p)
StartsWith(s, p) == Len(s) >= Len(p) /\ SubSeq(s, 1, Len(p)) = p

\* s.replace(from, to): non-overlapping matches, left to right
RECURSIVE StrReplace(_, _, _)
StrReplace(s, from, to) ==
    IF s = <<>> THEN <<>>
    ELSE IF StartsWith(s, from)
         THEN to \o StrReplace(SubSeq(s, Len(from) + 1, Len(s)), from, to)
         ELSE <<Head(s)>> \o StrReplace(Tail(s), from, to)

\* s.find(c): byte offset of the first c, or -1 for None
StrFind(s, c) ==
    IF \E i \in 1..Len(s) : s[i] = c
    THEN BytePos(s, CHOOSE i \in 1..Len(s) : s[i] = c /\ \A j \in 1..(i - 1) : s[j] # c)
    ELSE -1

(***************************************************************************)
(* aya-log-parser                                                          *)
(***************************************************************************)
Literal(text) == [kind |-> "Literal", text |-> text]
Parameter(hint) == [kind |-> "Parameter", hint |-> hint]

Ok(v) == [ok |-> TRUE, val |-> v]
Err(e) == [ok |-> FALSE, err |-> e]

\* the scan of push_literal: the state after the last character
RECURSIVE ScanBraces(_, _, _)
ScanBraces(s, last_open, last_close) ==
    IF s = <<>> THEN
        IF last_open THEN Err("unmatched { in format string")
        ELSE IF last_close THEN Err("unmatched } in format string")
        ELSE Ok(<<>>)
    ELSE IF Head(s) = "{" THEN ScanBraces(Tail(s), ~last_open, last_close)
    ELSE IF Head(s) = "}" THEN ScanBraces(Tail(s), last_open, ~last_close)
    ELSE IF last_open THEN Err("unmatched { in format string")
    ELSE IF last_close THEN Err("unmatched } in format string")
    ELSE ScanBraces(Tail(s), last_open, last_close)

\* Unescape that forgets the closing pair
Unescape_OpenOnly(unescaped_literal) ==
    StrReplace(unescaped_literal, <<"{", "{">>, <<"{">>)

Unescape(unescaped_literal) ==
    StrReplace(StrReplace(unescaped_literal, <<"{", "{">>, <<"{">>), <<"}", "}">>, <<"}">>)

\* push_literal that pushes the text as it stands in the template
push_literal_Raw(frag, unescaped_literal) ==
    LET scan == ScanBraces(unescaped_literal, FALSE, FALSE)
    IN IF ~scan.ok THEN scan
       ELSE Ok(Append(frag, Literal(unescaped_literal)))

push_literal(frag, unescaped_literal) ==
    LET scan == ScanBraces(unescaped_literal, FALSE, FALSE)
    IN IF ~scan.ok THEN scan
       ELSE Ok(Append(frag, Literal(Unescape(unescaped_literal))))

\* parse_display_hint that matches the address keywords in any letter case
parse_display_hint_AnyCase(s) ==
    CASE s = <<"x">> -> Ok("LowerHex")
      [] s = <<"X">> -> Ok("UpperHex")
      [] /\ Len(s) = 4
         /\ s[1] \in {"i", "I"} /\ s[2] \in {"p", "P"} /\ s[3] \in {"v", "V"}
         /\ s[4] = "4" -> Ok("IPv4")
      [] /\ Len(s) = 4
         /\ s[1] \in {"i", "I"} /\ s[2] \in {"p", "P"} /\ s[3] \in {"v", "V"}
         /\ s[4] = "6" -> Ok("IPv6")
      [] OTHER -> Err("unknown display hint")

parse_display_hint(s) ==
    CASE s = <<"x">> -> Ok("LowerHex")
      [] s = <<"X">> -> Ok("UpperHex")
      [] s = <<"i", "p", "v", "4">> -> Ok("IPv4")
      [] s = <<"I", "P", "v", "4">> -> Ok("IPv4")
      [] s = <<"i", "p", "v", "6">> -> Ok("IPv6")
      [] s = <<"I", "P", "v", "6">> -> Ok("IPv6")
      [] OTHER -> Err("unknown display hint")

HINT_PREFIX == <<":">>

parse_param(input) ==
    IF StartsWith(input, HINT_PREFIX) THEN
        LET rest == SubSeq(input, Len(HINT_PREFIX) + 1, Len(input))
        IN IF rest = <<>>
           THEN Err("malformed format string (missing display hint after ':')")
           ELSE LET hint == parse_display_hint(rest)
                IN IF hint.ok THEN Ok(Parameter(hint.val)) ELSE hint
    ELSE IF input # <<>> THEN Err("unexpected content in format string")
    ELSE Ok(Parameter("Default"))

\* the while loop of parse and the trailing literal: chars is the 1-based index
\* of the next character of the iterator, end_pos the byte offset after the closing
\* brace of the last format specifier
RECURSIVE ParseLoop(_, _, _, _)
ParseLoop(s, chars, end_pos, frags) ==
    IF chars > Len(s) THEN
        IF end_pos # StrLen(s)
        THEN push_literal(frags, StrSlice(s, end_pos, StrLen(s)))
        ELSE Ok(frags)
    ELSE
        LET brace_pos == BytePos(s, chars)
            rest == SubSeq(s, chars + 1, Len(s))
        IN IF s[chars] # "{" THEN ParseLoop(s, chars + 1, end_pos, frags)
           ELSE IF StartsWith(rest, <<"{">>) THEN ParseLoop(s, chars + 2, end_pos, frags)
           ELSE
             LET lit == IF brace_pos > end_pos
                        THEN push_literal(frags, StrSlice(s, end_pos, brace_pos))
                        ELSE Ok(frags)
                 len == StrFind(rest, "}")
                 param == parse_param(StrSlice(s, brace_pos + 1, brace_pos + 1 + len))
             IN IF ~lit.ok THEN lit
                ELSE IF len = -1 THEN Err("missing } in format string")
                ELSE IF ~param.ok THEN param
                ELSE ParseLoop(s, chars + 1, brace_pos + 1 + len + 1,
                               Append(lit.val, param.val))

parse(s) == ParseLoop(s, 1, 0, <<>>)

(***************************************************************************)
(* aya-log-common: enums and native byte representations                   *)
(***************************************************************************)
\* mem::size_of::<usize>(): the eBPF target and its loader are 64-bit
W == 8

\* mem::size_of::<T>() of the two tag types and of DisplayHint: all repr(usize)
SizeOf(ty) ==
    CASE ty = "RecordField" -> W
      [] ty = "ArgType" -> W
      [] ty = "DisplayHint" -> W
      [] ty = "usize" -> W

\* Level as usize
LevelRepr(level) ==
    CASE level = "Error" -> 1
      [] level = "Warn" -> 2
      [] level = "Info" -> 3
      [] level = "Debug" -> 4
      [] level = "Trace" -> 5

\* RecordField as usize
RecordFieldRepr(field) ==
    CASE field = "Target" -> 1
      [] field = "Level" -> 2
      [] field = "Module" -> 3
      [] field = "File" -> 4
      [] field = "Line" -> 5
      [] field = "NumArgs" -> 6

\* ArgType as usize
ArgTypeRepr(ty) ==
    CASE ty = "I8" -> 0
      [] ty = "I16" -> 1
      [] ty = "I32" -> 2
      [] ty = "I64" -> 3
      [] ty = "Isize" -> 4
      [] ty = "U8" -> 5
      [] ty = "U16" -> 6
      [] ty = "U32" -> 7
      [] ty = "U64" -> 8
      [] ty = "Usize" -> 9
      [] ty = "F32" -> 10
      [] ty = "F64" -> 11
      [] ty = "ArrU8Len16" -> 12
      [] ty = "ArrU16Len8" -> 13
      [] ty = "Str" -> 14

\* DisplayHint as usize
DisplayHintRepr(hint) ==
    CASE hint = "Default" -> 1
      [] hint = "LowerHex" -> 2
      [] hint = "UpperHex" -> 3
      [] hint = "IPv4" -> 4
      [] hint = "IPv6" -> 5

DisplayHints == {"Default", "LowerHex", "UpperHex", "IPv4", "IPv6"}
Levels == {"Error", "Warn", "Info", "Debug", "Trace"}

RECURSIVE Reverse(_)
Reverse(s) == IF s = <<>> THEN <<>> ELSE Append(Reverse(Tail(s)), Head(s))

\* the n low bytes of v in two's complement, least significant first
RECURSIVE LeBytes(_, _)
LeBytes(v, n) == IF n = 0 THEN <<>> ELSE <<v % 256>> \o LeBytes(v \div 256, n - 1)

\* {integer}::to_ne_bytes and the byte image ptr::write_unaligned stores
to_ne_bytes(v, n) == IF endian = "little" THEN LeBytes(v, n) ELSE Reverse(LeBytes(v, n))

RECURSIVE Flatten(_)
Flatten(ss) == IF ss = <<>> THEN <<>> ELSE Head(ss) \o Flatten(Tail(ss))

\* size in bytes of the scalar types of impl_write_to_buf!; a float value is
\* its bit pattern (f32::to_ne_bytes is to_bits().to_ne_bytes())
ScalarSize(ty) ==
    CASE ty \in {"i8", "u8"} -> 1
      [] ty \in {"i16", "u16"} -> 2
      [] ty \in {"i32", "u32", "f32"} -> 4
      [] ty \in {"i64", "u64", "f64"} -> 8
      [] ty \in {"isize", "usize"} -> W

\* the ArgType each WriteToBuf impl passes to TagLenValue::new
ArgTypeOf(ty) ==
    CASE ty = "i8" -> "I8"
      [] ty = "i16" -> "I16"
      [] ty = "i32" -> "I32"
      [] ty = "i64" -> "I64"
      [] ty = "isize" -> "Isize"
      [] ty = "u8" -> "U8"
      [] ty = "u16" -> "U16"
      [] ty = "u32" -> "U32"
      [] ty = "u64" -> "U64"
      [] ty = "usize" -> "Usize"
      [] ty = "f32" -> "F32"
      [] ty = "f64" -> "F64"
      [] ty = "[u8; 16]" -> "ArrU8Len16"
      [] ty = "[u16; 8]" -> "ArrU16Len8"
      [] ty = "str" -> "Str"

\* ValueBytes whose [u16; 8] span has self.len() bytes instead of self.len() * 2
ValueBytes_ElementCount(v) ==
    CASE v.ty = "[u8; 16]" -> v.val
      [] v.ty = "[u16; 8]" ->
            SubSeq(Flatten([i \in 1..Len(v.val) |-> to_ne_bytes(v.val[i], 2)]), 1, Len(v.val))
      [] v.ty = "str" -> AsBytes(v.val)
      [] OTHER -> to_ne_bytes(v.val, ScalarSize(v.ty))

\* the byte span each WriteToBuf impl passes to TagLenValue::new
ValueBytes(v) ==
    CASE v.ty = "[u8; 16]" -> v.val
      [] v.ty = "[u16; 8]" -> Flatten([i \in 1..Len(v.val) |-> to_ne_bytes(v.val[i], 2)])
      [] v.ty = "str" -> AsBytes(v.val)
      [] OTHER -> to_ne_bytes(v.val, ScalarSize(v.ty))

Min(a, b) == IF a < b THEN a ELSE b

(***************************************************************************)
(* aya-log-common: TagLenValue::write                                      *)
(*                                                                         *)
(* A slice &mut buf[off..] of the caller's buffer is the pair of the       *)
(* buffer mem and the offset off of its first byte; st is the state of one *)
(* write: the buffer, the start of the local slice buf, and the fault.     *)
(***************************************************************************)
\* ptr::write_unaligned(buf.as_mut_ptr() as *mut _, x): stores the bytes of x
\* at the start of buf without a bounds check
WriteUnaligned(st, bytes) ==
    IF st.fault # "none" THEN st
    ELSE [mem |-> [i \in 1..Len(st.mem) |->
                      IF i > st.off /\ i <= st.off + Len(bytes)
                      THEN bytes[i - st.off] ELSE st.mem[i]],
          off |-> st.off,
          fault |-> IF st.off + Len(bytes) > Len(st.mem) THEN "ub" ELSE "none"]

\* buf = &mut buf[n..]: panics when n is past the end
SliceFrom(st, n) ==
    IF st.fault # "none" THEN st
    ELSE IF n > Len(st.mem) - st.off THEN [st EXCEPT !.fault = "panic"]
    ELSE [st EXCEPT !.off = st.off + n]

\* buf[..len].copy_from_slice(&value[..len])
CopyFromSlice(st, value, len) ==
    IF st.fault # "none" THEN st
    ELSE IF len > Len(st.mem) - st.off \/ len > Len(value) THEN [st EXCEPT !.fault = "panic"]
    ELSE [st EXCEPT !.mem = [i \in 1..Len(st.mem) |->
                      IF i > st.off /\ i <= st.off + len
                      THEN value[i - st.off] ELSE st.mem[i]]]

\* what a call leaves behind: its Result, the buffer and the fault
Outcome(res, mem, f) ==
    [res |-> IF f = "none" THEN res ELSE [ok |-> FALSE, err |-> f], mem |-> mem, fault |-> f]

\* TagLenValue::write whose size check leaves out the payload length
TagLenValue_write_PrefixCheck(self, mem, off) ==
    LET size == SizeOf(self.tag_ty) + SizeOf("DisplayHint") + SizeOf("usize") + Len(self.value)
        s0 == [mem |-> mem, off |-> off, fault |-> "none"]
        s1 == SliceFrom(WriteUnaligned(s0, to_ne_bytes(self.tag, SizeOf(self.tag_ty))),
                        SizeOf(self.tag_ty))
        s2 == SliceFrom(WriteUnaligned(s1, to_ne_bytes(self.hint, SizeOf("DisplayHint"))),
                        SizeOf("usize"))
        s3 == SliceFrom(WriteUnaligned(s2, to_ne_bytes(Len(self.value), SizeOf("usize"))),
                        SizeOf("usize"))
        len == Min(Len(s3.mem) - s3.off, Len(self.value))
        s4 == CopyFromSlice(s3, self.value, len)
    IN IF Len(mem) - off < size - Len(self.value)
       THEN Outcome(Err("()"), mem, "none")
       ELSE Outcome(Ok(size), s4.mem, s4.fault)

\* TagLenValue::write that stores the tag before it checks the size
TagLenValue_write_TagFirst(self, mem, off) ==
    LET size == SizeOf(self.tag_ty) + SizeOf("DisplayHint") + SizeOf("usize") + Len(self.value)
        s0 == [mem |-> mem, off |-> off, fault |-> "none"]
        s1 == SliceFrom(WriteUnaligned(s0, to_ne_bytes(self.tag, SizeOf(self.tag_ty))),
                        SizeOf(self.tag_ty))
        s2 == SliceFrom(WriteUnaligned(s1, to_ne_bytes(self.hint, SizeOf("DisplayHint"))),
                        SizeOf("usize"))
        s3 == SliceFrom(WriteUnaligned(s2, to_ne_bytes(Len(self.value), SizeOf("usize"))),
                        SizeOf("usize"))
        len == Min(Len(s3.mem) - s3.off, Len(self.value))
        s4 == CopyFromSlice(s3, self.value, len)
    IN IF Len(mem) - off < size
       THEN Outcome(Err("()"),
                    IF Len(mem) - off >= SizeOf(self.tag_ty) THEN s1.mem ELSE mem, "none")
       ELSE Outcome(Ok(size), s4.mem, s4.fault)

\* TagLenValue::write that returns the size of the three prefix fields
TagLenValue_write_PrefixSize(self, mem, off) ==
    LET size == SizeOf(self.tag_ty) + SizeOf("DisplayHint") + SizeOf("usize") + Len(self.value)
        s0 == [mem |-> mem, off |-> off, fault |-> "none"]
        s1 == SliceFrom(WriteUnaligned(s0, to_ne_bytes(self.tag, SizeOf(self.tag_ty))),
                        SizeOf(self.tag_ty))
        s2 == SliceFrom(WriteUnaligned(s1, to_ne_bytes(self.hint, SizeOf("DisplayHint"))),
                        SizeOf("usize"))
        s3 == SliceFrom(WriteUnaligned(s2, to_ne_bytes(Len(self.value), SizeOf("usize"))),
                        SizeOf("usize"))
        len == Min(Len(s3.mem) - s3.off, Len(self.value))
        s4 == CopyFromSlice(s3, self.value, len)
    IN IF Len(mem) - off < size
       THEN Outcome(Err("()"), mem, "none")
       ELSE Outcome(Ok(size - Len(self.value)), s4.mem, s4.fault)

\* self = [tag_ty, tag, hint, value]: tag and hint as their usize discriminant
TagLenValue_write(self, mem, off) ==
    LET size == SizeOf(self.tag_ty) + SizeOf("DisplayHint") + SizeOf("usize") + Len(self.value)
        s0 == [mem |-> mem, off |-> off, fault |-> "none"]
        s1 == SliceFrom(WriteUnaligned(s0, to_ne_bytes(self.tag, SizeOf(self.tag_ty))),
                        SizeOf(self.tag_ty))
        s2 == SliceFrom(WriteUnaligned(s1, to_ne_bytes(self.hint, SizeOf("DisplayHint"))),
                        SizeOf("usize"))
        s3 == SliceFrom(WriteUnaligned(s2, to_ne_bytes(Len(self.value), SizeOf("usize"))),
                        SizeOf("usize"))
        len == Min(Len(s3.mem) - s3.off, Len(self.value))
        s4 == CopyFromSlice(s3, self.value, len)
    IN IF Len(mem) - off < size
       THEN Outcome(Err("()"), mem, "none")
       ELSE Outcome(Ok(size), s4.mem, s4.fault)

\* <T as WriteToBuf>::write(&self, buf, hint) for v = [ty, val]
WriteToBuf_write(v, mem, off, hint) ==
    TagLenValue_write([tag_ty |-> "ArgType", tag |-> ArgTypeRepr(ArgTypeOf(v.ty)),
                       hint |-> DisplayHintRepr(hint), value |-> ValueBytes(v)], mem, off)

\* HeaderAttrs with the file entry before the module entry
HeaderAttrs_FileFirst(target, level, module, file, line, num_args) ==
    LET attr(field, value) == [tag_ty |-> "RecordField", tag |-> RecordFieldRepr(field),
                               hint |-> DisplayHintRepr("Default"), value |-> value]
    IN << attr("Target", AsBytes(target)),
          attr("Level", to_ne_bytes(LevelRepr(level), W)),
          attr("File", AsBytes(file)),
          attr("Module", AsBytes(module)),
          attr("Line", to_ne_bytes(line, 4)),
          attr("NumArgs", to_ne_bytes(num_args, W)) >>

\* the array of six TagLenValue::<RecordField> of write_record_header
HeaderAttrs(target, level, module, file, line, num_args) ==
    LET attr(field, value) == [tag_ty |-> "RecordField", tag |-> RecordFieldRepr(field),
                               hint |-> DisplayHintRepr("Default"), value |-> value]
    IN << attr("Target", AsBytes(target)),
          attr("Level", to_ne_bytes(LevelRepr(level), W)),
          attr("Module", AsBytes(module)),
          attr("File", AsBytes(file)),
          attr("Line", to_ne_bytes(line, 4)),
          attr("NumArgs", to_ne_bytes(num_args, W)) >>

\* the for loop of write_record_header from its i-th attribute on
RECURSIVE HeaderLoop(_, _, _, _)
HeaderLoop(attrs, i, size, mem) ==
    IF i > Len(attrs) THEN Outcome(Ok(size), mem, "none")
    ELSE IF size > Len(mem) THEN Outcome(Err("()"), mem, "panic")
    ELSE LET w == TagLenValue_write(attrs[i], mem, size)
         IN IF ~w.res.ok THEN w
            ELSE HeaderLoop(attrs, i + 1, size + w.res.val, w.mem)

write_record_header(mem, target, level, module, file, line, num_args) ==
    HeaderLoop(HeaderAttrs(target, level, module, file, line, num_args), 1, 0, mem)

(***************************************************************************)
(* Callers of the encoder: one encode call into a fresh buffer             *)
(***************************************************************************)
\* what the caller's buffer holds before the call
InitialBuf(n) == [i \in 1..n |-> (37 * i + 11) % 256]

NoCall == [op |-> "none"]
NoResult == [ok |-> FALSE, err |-> "not returned"]

TextSamples == {<<>>, <<"é", "a">>}

TlvSamples ==
    [tag_ty : {"RecordField"}, tag : {1, 6}, hint : {1, 5}, value : {<<>>, <<7, 8, 9>>}]
    \cup [tag_ty : {"ArgType"}, tag : {0, 14}, hint : {2}, value : {<<>>, <<255>>}]

ValueSamples ==
    << [ty |-> "i8", val |-> -1], [ty |-> "i16", val |-> -2], [ty |-> "i32", val |-> -65537],
      [ty |-> "i64", val |-> -4660], [ty |-> "isize", val |-> 5],
      [ty |-> "u8", val |-> 42], [ty |-> "u16", val |-> 513], [ty |-> "u32", val |-> 1575522155],
      [ty |-> "u64", val |-> 16909060], [ty |-> "usize", val |-> 258],
      [ty |-> "f32", val |-> 1065353216], [ty |-> "f64", val |-> 1],
      [ty |-> "[u8; 16]", val |-> [i \in 1..16 |-> 16 * i - 1]],
      [ty |-> "[u16; 8]", val |-> [i \in 1..8 |-> 257 * i + 255]],
      [ty |-> "str", val |-> <<>>], [ty |-> "str", val |-> <<"é", "a">>] >>

InitEnc ==
    /\ format_string = <<>>
    /\ parsed = NoResult
    /\ endian \in {"little", "big"}
    /\ \E n \in 0..MaxBufLen : buf = InitialBuf(n)
    /\ buf0 = buf
    /\ pc = "idle"
    /\ call = NoCall
    /\ ret = NoResult
    /\ fragments = <<>>
    /\ frag_i = 0
    /\ record_len = 0
    /\ calls = <<>>
    /\ fault = "none"

Returned(c, o) ==
    /\ pc = "idle"
    /\ pc' = "returned"
    /\ call' = c
    /\ ret' = o.res
    /\ buf' = o.mem
    /\ fault' = o.fault
    /\ UNCHANGED <<format_string, parsed, endian, buf0, fragments, frag_i, record_len, calls>>

CallTagLenValueWrite ==
    \E self \in TlvSamples :
        Returned([op |-> "TagLenValue::write", self |-> self],
                 TagLenValue_write(self, buf, 0))

CallWriteToBuf ==
    \E k \in 1..Len(ValueSamples), hint \in DisplayHints :
        Returned([op |-> "WriteToBuf::write", value |-> ValueSamples[k], hint |-> hint],
                 WriteToBuf_write(ValueSamples[k], buf, 0, hint))

CallWriteRecordHeader ==
    \E target \in TextSamples, level \in Levels, module \in TextSamples,
       file \in {<<"a", ".", "r", "s">>}, line \in {0, 123456}, num_args \in {0, 3} :
        Returned([op |-> "write_record_header", target |-> target, level |-> level,
                  module |-> module, file |-> file, line |-> line, num_args |-> num_args],
                 write_record_header(buf, target, level, module, file, line, num_args))

NextEnc == CallTagLenValueWrite \/ CallWriteToBuf \/ CallWriteRecordHeader

SpecEnc == InitEnc /\ [][NextEnc]_vars

(***************************************************************************)
(* Callers of the parser: one call of parse                                *)
(***************************************************************************)
Alphabet == {"{", "}", ":", "x", "é"}

TemplateSamples ==
    { <<"f", "o", "o", " ", "{", "}", " ", "b", "a", "r", " ", "{", ":", "x", "}">>,
      <<"{", ":", "X", "}", " ", "{", ":", "i", "p", "v", "4", "}", "é",
        "{", ":", "I", "P", "v", "4", "}">>,
      <<"b", "a", " ", "{">>,
      <<"b", "a", " ", "}">>,
      <<"a", " ", "{", "{", "x", "}", "}", " ", "b">>,
      <<"{", ":", "b", "o", "}">>,
      <<"{", ":", "i", "p", "v", "4", "}", "}", "}", "{", "{", "{", ":", "I", "P", "v", "6", "}">>,
      <<"{", ":", "X", "}">>,
      <<"{", ":", "i", "p", "v", "4", "}">>,
      <<"{", ":", "I", "P", "v", "4", "}">>,
      <<"{", ":", "i", "p", "v", "6", "}">>,
      <<"{", ":", "I", "P", "v", "6", "}">>,
      <<"{", ":", "I", "P", "V", "6", "}">>,
      <<"{", ":", "i", "p", "v", "6", "}", "é">>,
      <<"{", ":", "i", "p", "v", "4", "x", "}">>,
      <<"{", ":", "I", "p", "v", "4", "}">>,
      <<"{", ":", "i", "p", "v", "}">>,
      <<"{", "i", "p", "v", "4", "}">>,
      <<"{", " ", ":", "x", "}">>,
      <<"{", ":", "x", " ", "}">>,
      <<"{", ":", ":", "x", "}">> }

Templates ==
    UNION {[1..k -> Alphabet] : k \in 0..MaxTemplateLen} \cup TemplateSamples

InitParse ==
    /\ format_string \in Templates
    /\ parsed = NoResult
    /\ endian = "little"
    /\ buf = <<>>
    /\ buf0 = <<>>
    /\ pc = "idle"
    /\ call = NoCall
    /\ ret = NoResult
    /\ fragments = <<>>
    /\ frag_i = 0
    /\ record_len = 0
    /\ calls = <<>>
    /\ fault = "none"

CallParse ==
    /\ pc = "idle"
    /\ pc' = "returned"
    /\ parsed' = parse(format_string)
    /\ UNCHANGED <<format_string, endian, buf, buf0, call, ret, fragments, frag_i,
                   record_len, calls, fault>>

NextParse == CallParse

SpecParse == InitParse /\ [][NextParse]_vars

(***************************************************************************)
(* The decoder's view of the wire format:                                  *)
(* [tag: W][hint: W][length: W][payload: length bytes], native byte order  *)
(***************************************************************************)
\* n bytes of mem from the 0-based offset off; -1 where mem has no such byte
BytesAt(mem, off, n) ==
    [i \in 1..n |-> IF off + i >= 1 /\ off + i <= Len(mem) THEN mem[off + i] ELSE -1]

\* the unsigned number held by bytes in native order; -1 when it is not a
\* number below 2^31
DecodeUnsigned(bytes) ==
    LET le == IF endian = "little" THEN bytes ELSE Reverse(bytes)
        b(i) == IF i <= Len(le) THEN le[i] ELSE 0
    IN IF \/ \E i \in 1..Len(le) : le[i] < 0 \/ le[i] > 255
          \/ \E i \in 5..Len(le) : le[i] # 0
          \/ b(4) > 127
       THEN -1
       ELSE b(1) + 256 * b(2) + 65536 * b(3) + 16777216 * b(4)

\* the two's complement number held by bytes in native order
DecodeSigned(bytes) ==
    LET le == IF endian = "little" THEN bytes ELSE Reverse(bytes)
    IN IF bytes # <<>> /\ le[Len(le)] > 127
       THEN -1 - DecodeUnsigned([i \in 1..Len(bytes) |-> 255 - bytes[i]])
       ELSE DecodeUnsigned(bytes)

Chars == {"é", "{", "}", ":", " ", ".", "4", "6", "I", "P", "V", "X", "a", "b", "e", "f", "i",
          "m", "o", "p", "r", "s", "t", "v", "x"}

\* the text whose UTF-8 encoding is bytes; <<"?">> when there is none
RECURSIVE DecodeUtf8(_)
DecodeUtf8(bytes) ==
    IF bytes = <<>> THEN <<>>
    ELSE LET n == IF Head(bytes) < 128 THEN 1 ELSE 2
             first == SubSeq(bytes, 1, Min(n, Len(bytes)))
         IN IF \E c \in Chars : Utf8(c) = first
            THEN <<CHOOSE c \in Chars : Utf8(c) = first>>
                     \o DecodeUtf8(SubSeq(bytes, n + 1, Len(bytes)))
            ELSE <<"?">>

\* the position of x in the tuple t (0 when absent)
IndexOf(t, x) == IF \E i \in 1..Len(t) : t[i] = x THEN CHOOSE i \in 1..Len(t) : t[i] = x ELSE 0

ArgTypeOrder == <<"i8", "i16", "i32", "i64", "isize", "u8", "u16", "u32", "u64", "usize",
                  "f32", "f64", "[u8; 16]", "[u16; 8]", "str">>
HintOrder == <<"Default", "LowerHex", "UpperHex", "IPv4", "IPv6">>
LevelOrder == <<"Error", "Warn", "Info", "Debug", "Trace">>

\* the entry a decoder reads at offset off
EntryAt(mem, off) ==
    LET len == DecodeUnsigned(BytesAt(mem, off + 2 * W, W))
    IN [off |-> off,
        tag |-> DecodeUnsigned(BytesAt(mem, off, W)),
        hint |-> DecodeUnsigned(BytesAt(mem, off + W, W)),
        len |-> len,
        payload |-> BytesAt(mem, off + 3 * W, IF len < 0 THEN 0 ELSE len),
        next |-> off + 3 * W + len]

\* the n entries a decoder reads one after the other from offset off
RECURSIVE ReadEntries(_, _, _)
ReadEntries(mem, off, n) ==
    IF n = 0 THEN <<>>
    ELSE LET e == EntryAt(mem, off)
         IN IF e.len < 0 THEN <<e>> ELSE <<e>> \o ReadEntries(mem, e.next, n - 1)

\* the value a decoder recovers from the payload of an entry of type ty
DecodeValue(ty, payload) ==
    CASE ty \in {"i8", "i16", "i32", "i64", "isize"} -> DecodeSigned(payload)
      [] ty = "[u8; 16]" -> payload
      [] ty = "[u16; 8]" ->
            [i \in 1..(Len(payload) \div 2) |-> DecodeUnsigned(SubSeq(payload, 2 * i - 1, 2 * i))]
      [] ty = "str" -> DecodeUtf8(payload)
      [] OTHER -> DecodeUnsigned(payload)

\* the size in bytes of the native representation of a value
NativeSize(v) ==
    CASE v.ty \in {"i8", "u8"} -> 1
      [] v.ty \in {"i16", "u16"} -> 2
      [] v.ty \in {"i32", "u32", "f32"} -> 4
      [] v.ty \in {"i64", "u64", "f64", "isize", "usize"} -> 8
      [] v.ty \in {"[u8; 16]", "[u16; 8]"} -> 16
      [] v.ty = "str" -> StrLen(v.val)

\* size_of(tag) + size_of(hint) + size_of(length) + payload length of the call
RequiredSize(c) ==
    IF c.op = "TagLenValue::write" THEN 3 * W + Len(c.self.value)
    ELSE 3 * W + NativeSize(c.value)

SameFrom(mem, mem0, off) ==
    /\ Len(mem) = Len(mem0)
    /\ \A i \in (off + 1)..Len(mem0) : mem[i] = mem0[i]

IsEntryCall == pc = "returned" /\ call.op \in {"TagLenValue::write", "WriteToBuf::write"}

\* C1: a buffer shorter than size_of(tag) + size_of(hint) + size_of(length) +
\* payload length makes TagLenValue::write and every typed WriteToBuf::write
\* return the capacity error and leaves every byte of the buffer unchanged.
C1_ShortBufferRejected ==
    (IsEntryCall /\ Len(buf0) < RequiredSize(call))
        => (ret = Err("()") /\ buf = buf0 /\ fault = "none")

C1_Witness ==
    /\ IsEntryCall
    /\ Len(buf0) = RequiredSize(call) - 1
    /\ RequiredSize(call) > 3 * W
    /\ ~ret.ok

\* C2: into a buffer that is large enough the typed encoder returns
\* 3 * W + payload length, a decoder reading [tag][hint][length][payload]
\* recovers the ArgType tag of the value, the hint, the payload length and the
\* value from its native bytes, and no byte from the returned size on changes.
C2_TypedRoundTrip ==
    (pc = "returned" /\ call.op = "WriteToBuf::write" /\ Len(buf0) >= RequiredSize(call))
        => LET e == EntryAt(buf, 0)
           IN /\ ret = Ok(3 * W + NativeSize(call.value))
              /\ fault = "none"
              /\ e.tag = IndexOf(ArgTypeOrder, call.value.ty) - 1
              /\ e.hint = IndexOf(HintOrder, call.hint)
              /\ e.len = NativeSize(call.value)
              /\ DecodeValue(call.value.ty, e.payload) = call.value.val
              /\ SameFrom(buf, buf0, ret.val)

C2_Witness ==
    /\ pc = "returned"
    /\ call.op = "WriteToBuf::write"
    /\ call.value.ty = "u32"
    /\ call.value.val = 1575522155
    /\ call.hint = "IPv4"
    /\ Len(buf0) = RequiredSize(call)
    /\ ret.ok
    /\ EntryAt(buf, 0).hint = 4

\* payload lengths of the six header entries of a write_record_header call
HeaderPayloadLens(c) == <<StrLen(c.target), W, StrLen(c.module), StrLen(c.file), 4, W>>

\* total size of the first k header entries
RECURSIVE HeaderSize(_, _)
HeaderSize(c, k) == IF k = 0 THEN 0 ELSE HeaderSize(c, k - 1) + 3 * W + HeaderPayloadLens(c)[k]

\* the first k entries of mem are the first k header entries of the call c
HeaderEntriesMatch(mem, c, k) ==
    LET es == ReadEntries(mem, 0, k)
        field(i) == CASE i = 1 -> DecodeUtf8(es[i].payload) = c.target
                      [] i = 2 -> DecodeUnsigned(es[i].payload) = IndexOf(LevelOrder, c.level)
                      [] i = 3 -> DecodeUtf8(es[i].payload) = c.module
                      [] i = 4 -> DecodeUtf8(es[i].payload) = c.file
                      [] i = 5 -> DecodeUnsigned(es[i].payload) = c.line
                      [] i = 6 -> DecodeUnsigned(es[i].payload) = c.num_args
    IN /\ Len(es) = k
       /\ \A i \in 1..k :
            /\ es[i].off = HeaderSize(c, i - 1)
            /\ es[i].tag = i
            /\ es[i].hint = IndexOf(HintOrder, "Default")
            /\ es[i].len = HeaderPayloadLens(c)[i]
            /\ field(i)

IsHeaderCall == pc = "returned" /\ call.op = "write_record_header"

\* C3: into a buffer large enough for all six entries write_record_header
\* returns the sum of the six entry sizes, and six entries read from offset 0
\* are Target, Level, Module, File, Line, NumArgs in this order, each with
\* the Default hint and the supplied value as payload.
C3_HeaderRoundTrip ==
    (IsHeaderCall /\ Len(buf0) >= HeaderSize(call, 6))
        => /\ ret = Ok(HeaderSize(call, 6))
           /\ fault = "none"
           /\ HeaderEntriesMatch(buf, call, 6)
           /\ SameFrom(buf, buf0, HeaderSize(call, 6))

C3_Witness ==
    /\ IsHeaderCall
    /\ call.target = <<"é", "a">>
    /\ call.level = "Trace"
    /\ call.line = 123456
    /\ call.num_args = 3
    /\ ret.ok
    /\ Len(buf0) > HeaderSize(call, 6)

\* number of leading header entries that fit into n bytes
FittingEntries(c, n) == CHOOSE k \in 0..6 :
    /\ HeaderSize(c, k) <= n
    /\ k < 6 => HeaderSize(c, k + 1) > n

\* C7: into a buffer too small for all six entries write_record_header returns
\* the capacity error without a fault; the entries before the first one that
\* does not fit are in the buffer as in a successful write, and no byte from
\* the start offset of that entry on is modified.
C7_HeaderPartialFailure ==
    (IsHeaderCall /\ Len(buf0) < HeaderSize(call, 6))
        => LET k == FittingEntries(call, Len(buf0))
           IN /\ ret = Err("()")
              /\ fault = "none"
              /\ HeaderEntriesMatch(buf, call, k)
              /\ SameFrom(buf, buf0, HeaderSize(call, k))

C7_Witness ==
    /\ IsHeaderCall
    /\ Len(buf0) = HeaderSize(call, 6) - 1
    /\ ~ret.ok
    /\ HeaderEntriesMatch(buf, call, 5)
    /\ buf # buf0

(***************************************************************************)
(* aya-log-test-macros: log!(buf, format_string, args...) and the block    *)
(* it expands to                                                           *)
(***************************************************************************)
None == [some |-> FALSE]
Some(x) == [some |-> TRUE, val |-> x]

\* the loop of log() over the fragments: the (value, hint) pairs, or the error
RECURSIVE ExpandFragments(_, _, _, _)
ExpandFragments(frags, formatting_args, arg_i, out) ==
    IF frags = <<>> THEN Ok(out)
    ELSE IF Head(frags).kind = "Literal"
    THEN ExpandFragments(Tail(frags), formatting_args, arg_i,
             Append(out, [value |-> [ty |-> "str", val |-> Head(frags).text],
                          hint |-> "Default"]))
    ELSE IF ~formatting_args.some THEN Err("no arguments provided")
    ELSE IF arg_i + 1 > Len(formatting_args.val) THEN Err("index out of bounds")
    ELSE ExpandFragments(Tail(frags), formatting_args, arg_i + 1,
             Append(out, [value |-> formatting_args.val[arg_i + 1],
                          hint |-> Head(frags).hint]))

LogTemplates ==
    { <<>>, <<"a">>, <<"{", "}">>, <<"é", "{", ":", "i", "p", "v", "4", "}">>,
      <<"{", "}", "{", ":", "x", "}">>, <<"a", "{", ":", "X", "}", "b">>, <<"{">> }

LogArgs == <<[ty |-> "u32", val |-> 1575522155], [ty |-> "u8", val |-> 42]>>

InitLog ==
    /\ format_string \in LogTemplates
    /\ parsed = NoResult
    /\ endian \in {"little", "big"}
    /\ \E n \in 0..MaxLogBufLen : buf = InitialBuf(n)
    /\ buf0 = buf
    /\ pc = "macro"
    /\ call \in {[op |-> "log", formatting_args |-> a] :
                    a \in {None, Some(LogArgs)}}
    /\ ret = NoResult
    /\ fragments = <<>>
    /\ frag_i = 0
    /\ record_len = 0
    /\ calls = <<>>
    /\ fault = "none"

\* log(): parse the format string and pair the fragments with the arguments
Expand ==
    /\ pc = "macro"
    /\ parsed' = parse(format_string)
    /\ LET e == IF parsed'.ok
                THEN ExpandFragments(parsed'.val, call.formatting_args, 0, <<>>)
                ELSE Err("failed to parse format string")
       IN /\ fragments' = IF e.ok THEN e.val ELSE <<>>
          /\ pc' = IF e.ok THEN "header" ELSE "compile_error"
    /\ UNCHANGED <<format_string, endian, buf, buf0, call, ret, frag_i, record_len,
                   calls, fault>>

\* if let Ok(header_len) = write_record_header(&mut buf, "test", Info, "test",
\* "test.rs", 123, num_args) { let mut record_len = header_len; ...
WriteHeader ==
    /\ pc = "header"
    /\ LET o == write_record_header(buf, <<"t", "e", "s", "t">>, "Info", <<"t", "e", "s", "t">>,
                                    <<"t", "e", "s", "t", ".", "r", "s">>, 123, Len(fragments))
       IN /\ buf' = o.mem
          /\ ret' = o.res
          /\ fault' = o.fault
          /\ calls' = Append(calls, [op |-> "write_record_header", off |-> 0, res |-> o.res])
          /\ record_len' = IF o.res.ok THEN o.res.val ELSE record_len
          /\ pc' = IF o.fault # "none" THEN "panicked"
                   ELSE IF o.res.ok THEN "entries" ELSE "done"
    /\ UNCHANGED <<format_string, parsed, endian, buf0, call, fragments, frag_i>>

\* if record_len >= buf.len() { return (); }
EntryReturn ==
    /\ pc = "entries"
    /\ frag_i < Len(fragments)
    /\ record_len >= Len(buf)
    /\ pc' = "done"
    /\ UNCHANGED <<format_string, parsed, endian, buf, buf0, call, ret, fragments, frag_i,
                   record_len, calls, fault>>

\* record_len += { value }.write(&mut buf[record_len..], hint).unwrap();
EntryWrite ==
    /\ pc = "entries"
    /\ frag_i < Len(fragments)
    /\ record_len < Len(buf)
    /\ LET f == fragments[frag_i + 1]
           o == WriteToBuf_write(f.value, buf, record_len, f.hint)
       IN /\ buf' = o.mem
          /\ ret' = o.res
          /\ calls' = Append(calls, [op |-> "WriteToBuf::write", off |-> record_len,
                                     res |-> o.res])
          /\ fault' = IF o.fault # "none" THEN o.fault
                      ELSE IF o.res.ok THEN "none" ELSE "panic"
          /\ pc' = IF o.fault = "none" /\ o.res.ok THEN "entries" ELSE "panicked"
          /\ record_len' = IF o.res.ok THEN record_len + o.res.val ELSE record_len
          /\ frag_i' = frag_i + 1
    /\ UNCHANGED <<format_string, parsed, endian, buf0, call, fragments>>

\* the end of the block
Finish ==
    /\ pc = "entries"
    /\ frag_i = Len(fragments)
    /\ pc' = "done"
    /\ UNCHANGED <<format_string, parsed, endian, buf, buf0, call, ret, fragments, frag_i,
                   record_len, calls, fault>>

NextLog == Expand \/ WriteHeader \/ EntryReturn \/ EntryWrite \/ Finish

SpecLog == InitLog /\ [][NextLog]_vars

(***************************************************************************)
(* The template grammar: placeholder blocks, escape pairs and lone braces  *)
(***************************************************************************)
\* index of the first closing brace of s, 0 when there is none
FirstClose(s) ==
    IF \E i \in 1..Len(s) : s[i] = "}"
    THEN CHOOSE i \in 1..Len(s) : s[i] = "}" /\ \A j \in 1..(i - 1) : s[j] # "}"
    ELSE 0

\* the template read left to right as a sequence of escape pairs, placeholder
\* blocks (an opening brace up to the next closing brace), lone braces and
\* other characters
RECURSIVE Tokens(_)
Tokens(s) ==
    IF s = <<>> THEN <<>>
    ELSE IF StartsWith(s, <<"{", "{">>) \/ StartsWith(s, <<"}", "}">>)
    THEN <<[t |-> "escape", text |-> <<Head(s)>>]>> \o Tokens(SubSeq(s, 3, Len(s)))
    ELSE IF Head(s) = "{" /\ FirstClose(s) # 0
    THEN <<[t |-> "block", text |-> SubSeq(s, 2, FirstClose(s) - 1)]>>
             \o Tokens(SubSeq(s, FirstClose(s) + 1, Len(s)))
    ELSE IF Head(s) \in {"{", "}"}
    THEN <<[t |-> "lone", text |-> <<Head(s)>>]>> \o Tokens(Tail(s))
    ELSE <<[t |-> "char", text |-> <<Head(s)>>]>> \o Tokens(Tail(s))

HasLoneBrace(s) ==
    \E i \in 1..Len(Tokens(s)) :
        \/ Tokens(s)[i].t = "lone"
        \/ Tokens(s)[i].t = "block" /\ \E j \in 1..Len(Tokens(s)[i].text) : Tokens(s)[i].text[j] = "{"

\* the placeholder bodies of the grammar and their hints
AcceptedBodies ==
    << [body |-> <<>>, hint |-> "Default"],
       [body |-> <<":", "x">>, hint |-> "LowerHex"],
       [body |-> <<":", "X">>, hint |-> "UpperHex"],
       [body |-> <<":", "i", "p", "v", "4">>, hint |-> "IPv4"],
       [body |-> <<":", "I", "P", "v", "4">>, hint |-> "IPv4"],
       [body |-> <<":", "i", "p", "v", "6">>, hint |-> "IPv6"],
       [body |-> <<":", "I", "P", "v", "6">>, hint |-> "IPv6"] >>

IsAccepted(body) == \E i \in 1..Len(AcceptedBodies) : AcceptedBodies[i].body = body

HintOfBody(body) ==
    IF IsAccepted(body)
    THEN AcceptedBodies[CHOOSE i \in 1..Len(AcceptedBodies) : AcceptedBodies[i].body = body].hint
    ELSE "?"

\* the fragments of a token sequence: blocks become Parameters, the text
\* between them, escape pairs collapsed, becomes the Literals
RECURSIVE FragmentsOf(_, _)
FragmentsOf(toks, text) ==
    IF toks = <<>> THEN (IF text = <<>> THEN <<>> ELSE <<Literal(text)>>)
    ELSE IF Head(toks).t = "block"
    THEN (IF text = <<>> THEN <<>> ELSE <<Literal(text)>>)
             \o <<Parameter(HintOfBody(Head(toks).text))>> \o FragmentsOf(Tail(toks), <<>>)
    ELSE FragmentsOf(Tail(toks), text \o Head(toks).text)

ParseReturnedOk == pc = "returned" /\ call.op = "none" /\ parsed.ok

\* C4 as stated: parse returns an error for every template that contains a
\* lone brace, one that is neither the delimiter of a placeholder block nor one
\* half of an adjacent escape pair.
C4_LoneBraceRejected ==
    (pc = "returned" /\ call.op = "none" /\ HasLoneBrace(format_string)) => ~parsed.ok

\* C5: the fragments of a successfully parsed template are in template order:
\* the k-th Parameter carries the hint of the k-th placeholder block, every
\* Literal is the text between neighbouring blocks with escape pairs collapsed.
C5_FragmentsInTemplateOrder ==
    ParseReturnedOk => parsed.val = FragmentsOf(Tokens(format_string), <<>>)

C5_Witness ==
    /\ ParseReturnedOk
    /\ format_string = <<"f", "o", "o", " ", "{", "}", " ", "b", "a", "r", " ", "{", ":", "x", "}">>
    /\ parsed.val = <<Literal(<<"f", "o", "o", " ">>), Parameter("Default"),
                      Literal(<<" ", "b", "a", "r", " ">>), Parameter("LowerHex")>>

\* a template that is one placeholder block
IsSingleBlock(s) ==
    /\ Len(s) >= 2
    /\ s[1] = "{"
    /\ s[Len(s)] = "}"
    /\ \A i \in 2..(Len(s) - 1) : s[i] \notin {"{", "}"}

\* C6: a placeholder body is accepted exactly when it is empty or one of :x,
\* :X, :ipv4, :IPv4, :ipv6, :IPv6, and then yields the hint of that keyword;
\* a template with any other body fails to parse and yields no fragments.
C6_BodyGrammar ==
    (pc = "returned" /\ call.op = "none") =>
        LET toks == Tokens(format_string)
        IN /\ parsed.ok =>
                \A i \in 1..Len(toks) : toks[i].t = "block" => IsAccepted(toks[i].text)
           /\ IsSingleBlock(format_string) =>
                LET body == SubSeq(format_string, 2, Len(format_string) - 1)
                IN IF IsAccepted(body)
                   THEN parsed = Ok(<<Parameter(HintOfBody(body))>>)
                   ELSE ~parsed.ok /\ DOMAIN parsed = {"ok", "err"}

C6_Witness ==
    /\ pc = "returned"
    /\ format_string = <<"{", ":", "I", "P", "v", "6", "}">>
    /\ parsed = Ok(<<Parameter("IPv6")>>)

\* a fragment rendered as template text: a Literal verbatim (escape = FALSE)
\* or with its braces doubled (escape = TRUE), a Parameter as {} or {:hint}
RECURSIVE EscapeBraces(_)
EscapeBraces(text) ==
    IF text = <<>> THEN <<>>
    ELSE (IF Head(text) \in {"{", "}"} THEN <<Head(text), Head(text)>> ELSE <<Head(text)>>)
             \o EscapeBraces(Tail(text))

HintKeyword(hint) ==
    CASE hint = "Default" -> <<>>
      [] hint = "LowerHex" -> <<":", "x">>
      [] hint = "UpperHex" -> <<":", "X">>
      [] hint = "IPv4" -> <<":", "i", "p", "v", "4">>
      [] hint = "IPv6" -> <<":", "i", "p", "v", "6">>
      [] OTHER -> <<"?">>

RECURSIVE Reconstruct(_, _)
Reconstruct(frags, escape) ==
    IF frags = <<>> THEN <<>>
    ELSE (IF Head(frags).kind = "Literal"
          THEN (IF escape THEN EscapeBraces(Head(frags).text) ELSE Head(frags).text)
          ELSE <<"{">> \o HintKeyword(Head(frags).hint) \o <<"}">>)
             \o Reconstruct(Tail(frags), escape)

\* the template with every escape pair collapsed and every hint keyword
\* replaced by the canonical keyword of its hint
RECURSIVE Normalize(_)
Normalize(toks) ==
    IF toks = <<>> THEN <<>>
    ELSE (IF Head(toks).t = "block"
          THEN <<"{">> \o HintKeyword(HintOfBody(Head(toks).text)) \o <<"}">>
          ELSE Head(toks).text)
             \o Normalize(Tail(toks))

\* C8: for a template that parses, the fragments rendered back (Literals
\* verbatim, Parameters as {} or {:hint}) are the template with escape pairs
\* collapsed and hint aliases normalized, and the fragments rendered with the
\* braces of the Literals escaped again parse to the same fragments.
C8_ReconstructRoundTrip ==
    ParseReturnedOk =>
        /\ Reconstruct(parsed.val, FALSE) = Normalize(Tokens(format_string))
        /\ parse(Reconstruct(parsed.val, TRUE)) = parsed

C8_Witness ==
    /\ ParseReturnedOk
    /\ format_string = <<"{", ":", "i", "p", "v", "4", "}", "}", "}", "{", "{",
                         "{", ":", "I", "P", "v", "6", "}">>
    /\ Reconstruct(parsed.val, TRUE) # format_string
    /\ Reconstruct(parsed.val, FALSE) # Reconstruct(parsed.val, TRUE)

(***************************************************************************)
(* The record written by the generated driver                              *)
(***************************************************************************)
\* the k-th encode call of the driver so far failed
CallFailed(k) == ~calls[k].res.ok

\* the offset and the size the encode calls so far ran up to
RECURSIVE RunningOffset(_)
RunningOffset(k) ==
    IF k = 0 THEN 0
    ELSE RunningOffset(k - 1) + (IF calls[k].res.ok THEN calls[k].res.val ELSE 0)

\* C9 as stated: the header is written once and first, then one entry per
\* fragment in fragment order at the running offset; the moment an encode call
\* fails the driver stops the record, makes no further encode call and does
\* not fault.
C9_StopsOnFirstFailure ==
    (call.op = "log") =>
        /\ \A k \in 1..Len(calls) :
              /\ calls[k].op = (IF k = 1 THEN "write_record_header" ELSE "WriteToBuf::write")
              /\ calls[k].off = RunningOffset(k - 1)
              /\ CallFailed(k) => (k = Len(calls) /\ pc = "done")
        /\ Len(calls) = (IF pc \in {"macro", "header", "compile_error"} THEN 0 ELSE 1 + frag_i)
        /\ fault = "none"
        /\ pc # "panicked"

\* the offsets a reader visits from offset off on, reading the length field
\* at offset + 2 * W and advancing by 3 * W + length, until it is at or past
\* limit or finds no length
RECURSIVE ReaderVisits(_, _, _)
ReaderVisits(mem, off, limit) ==
    IF off >= limit THEN <<off>>
    ELSE LET e == EntryAt(mem, off)
         IN IF e.len < 0 THEN <<off, -1>> ELSE <<off>> \o ReaderVisits(mem, e.next, limit)

TestHeader == [target |-> <<"t", "e", "s", "t">>, level |-> "Info",
               module |-> <<"t", "e", "s", "t">>,
               file |-> <<"t", "e", "s", "t", ".", "r", "s">>,
               line |-> 123, num_args |-> Len(fragments)]

\* the start offsets of the entries written so far, then the running offset
WrittenStarts ==
    [i \in 1..6 |-> HeaderSize(TestHeader, i - 1)]
        \o [k \in 1..(Len(calls) - 1) |-> calls[k + 1].off]
        \o <<record_len>>

AllWritesSucceeded ==
    /\ call.op = "log"
    /\ pc \in {"entries", "done"}
    /\ calls # <<>>
    /\ \A k \in 1..Len(calls) : calls[k].res.ok

C10_State ==
    AllWritesSucceeded =>
        /\ record_len <= Len(buf)
        /\ ReaderVisits(buf, 0, record_len) = WrittenStarts
        /\ HeaderEntriesMatch(buf, TestHeader, 6)

C10_Step ==
    (AllWritesSucceeded /\ AllWritesSucceeded') =>
        /\ record_len' >= record_len
        /\ Len(buf') = Len(buf)
        /\ \A i \in 1..record_len : buf'[i] = buf[i]

\* C10: after the header and any number of entries were written successfully
\* at the running offset, the running offset is at most the buffer length, a
\* write does not modify the bytes of an earlier entry, and a reader hopping
\* from offset 0 by 3 * W + length visits exactly the start of every written
\* entry, the six header entries first, and stops at the running offset.
C10_RecordIsWalkable == [](C10_State) /\ [][C10_Step]_vars

C10_Witness ==
    /\ AllWritesSucceeded
    /\ pc = "done"
    /\ Len(calls) = 3
    /\ record_len = Len(buf)
    /\ ReaderVisits(buf, 0, record_len) = WrittenStarts
    /\ Len(WrittenStarts) = 9

====
